---- MODULE Spec2Model ----
(***************************************************************************)
(* Model of stellar/deploy-contract.js: one run of mainProcessor driving    *)
(* processCommand (deploy or adopt, record, build initialize arguments,     *)
(* serialize and attach them, broadcast initialize, post-deploy hook,       *)
(* saveConfig).                                                             *)
(*                                                                          *)
(* JavaScript strings that the code inspects character-wise or tests for    *)
(* emptiness (addresses, stdout, the nonce option, public keys) are         *)
(* sequences of one-character strings.  Contract names, object keys and     *)
(* method names are TLA+ strings.  An option or record field that is        *)
(* undefined in JavaScript is a field absent from the record.               *)
(***************************************************************************)
EXTENDS Integers, Sequences, FiniteSets, TLC

VARIABLES
    pc,              \* position of the run inside mainProcessor / processCommand
    options,         \* parsed command-line options
    disk,            \* config.stellar as stored in the config file
    chain,           \* config.stellar in memory (the chain argument)
    wallet,          \* wallet.publicKey() of the wallet getWallet resolved
    stdout,          \* what execSync captured from the deploy binary
    contractAddress, \* local contractAddress of processCommand
    initializeArgs,  \* local initializeArgs of processCommand (typed ScVals)
    calls,           \* operations handed to broadcast, in order
    deployCalls,     \* number of execSync invocations of the deploy binary
    error,           \* the error that aborted the run, "none" if none
    saves            \* number of saveConfig calls

vars == <<pc, options, disk, chain, wallet, stdout, contractAddress,
          initializeArgs, calls, deployCalls, error, saves>>

(***************************************************************************)
(* Bounds of the model.                                                     *)
(***************************************************************************)
MaxAddrLen == 1      \* longest address string tried for --address and stdout
MaxTrail == 1        \* most trailing whitespace characters in stdout
MaxNonceLen == 1     \* longest --nonce string tried

AddrChars == {"C", "D"}
Whitespace == {"\n"}
NonceChars == {"n"}
Wallets == {<<"G", "A">>, <<"G", "B">>}
PriorDeployer == <<"G", "P">>

Strs(S, n) == UNION {[1..k -> S] : k \in 0..n}

Addrs == Strs(AddrChars, MaxAddrLen)
Trails == Strs(Whitespace, MaxTrail)
Nonces == Strs(NonceChars, MaxNonceLen)

ContractNames ==
    {"axelar_gateway", "axelar_auth_verifier", "axelar_operators", "unknown_contract"}

Has(r, f) == f \in DOMAIN r

\* JavaScript truthiness of an optional string field: undefined and "" are falsy
Truthy(r, f) == Has(r, f) /\ r[f] # <<>>

(***************************************************************************)
(* The SDK's typed values (ScVal) and their native images.                  *)
(***************************************************************************)
AddressToScVal(s) == [type |-> "address", value |-> s]
NumberToScVal(n) == [type |-> "u64", value |-> n]
BytesToScVal(b) == [type |-> "bytes", value |-> b]
VecToScVal(items) == [type |-> "vec", value |-> items]
MapToScVal(entries) == [type |-> "map", value |-> entries]

RECURSIVE scValToNative(_)
scValToNative(scv) ==
    CASE scv.type = "address" -> [t |-> "string", v |-> scv.value]
      [] scv.type \in {"u64", "u128"} -> [t |-> "bigint", v |-> scv.value]
      [] scv.type = "bytes" -> [t |-> "Uint8Array", v |-> scv.value]
      [] scv.type = "vec" ->
            [t |-> "Array",
             v |-> [i \in 1..Len(scv.value) |-> scValToNative(scv.value[i])]]
      [] scv.type = "map" ->
            [t |-> "object",
             v |-> [i \in 1..Len(scv.value) |->
                      [key |-> scv.value[i].key,
                       val |-> scValToNative(scv.value[i].val)]]]

HexDigits == <<"0", "1", "2", "3", "4", "5", "6", "7",
               "8", "9", "a", "b", "c", "d", "e", "f">>

RECURSIVE toHex(_)
toHex(bytes) ==
    IF bytes = <<>> THEN <<>>
    ELSE <<HexDigits[(Head(bytes) \div 16) + 1], HexDigits[(Head(bytes) % 16) + 1]>>
         \o toHex(Tail(bytes))

RECURSIVE toDecimal(_)
toDecimal(n) ==
    IF n < 10 THEN <<HexDigits[n + 1]>>
    ELSE toDecimal(n \div 10) \o <<HexDigits[(n % 10) + 1]>>

RECURSIVE serializeValue(_)
serializeValue(value) ==
    CASE value.t = "Uint8Array" -> [t |-> "string", v |-> toHex(value.v)]
      [] value.t = "Array" ->
            [t |-> "Array",
             v |-> [i \in 1..Len(value.v) |-> serializeValue(value.v[i])]]
      [] value.t = "bigint" -> [t |-> "string", v |-> toDecimal(value.v)]
      [] value.t = "object" ->
            [t |-> "object",
             v |-> [i \in 1..Len(value.v) |->
                      [key |-> value.v[i].key, val |-> serializeValue(value.v[i].val)]]]
      [] OTHER -> value

(***************************************************************************)
(* External collaborators, by what they return.                             *)
(***************************************************************************)
\* ethers id(): keccak256 of the UTF-8 string, as 32 bytes after arrayify
id(s) == [i \in 1..32 |-> (Len(s) * 31 + i * 7) % 256]

\* results of getDomainSeparator after arrayify: 32-byte hashes
DomainSeparators == {[i \in 1..32 |-> 0], [i \in 1..32 |-> 171]}

\* a bug: the captured output is used untrimmed
trimEnd_Untrimmed(s) == s

\* String.prototype.trimEnd
RECURSIVE trimEnd(_)
trimEnd(s) ==
    IF s # <<>> /\ s[Len(s)] \in Whitespace THEN trimEnd(SubSeq(s, 1, Len(s) - 1))
    ELSE s

\* type-utils weightedSignersToScVal: the signer set as a typed map
weightedSignersToScVal(ws) ==
    MapToScVal(<<
        [key |-> "nonce", val |-> BytesToScVal(ws.nonce)],
        [key |-> "signers",
         val |-> VecToScVal([i \in 1..Len(ws.signers) |->
                    MapToScVal(<<
                        [key |-> "signer", val |-> AddressToScVal(ws.signers[i].signer)],
                        [key |-> "weight",
                         val |-> [type |-> "u128", value |-> ws.signers[i].weight]]>>)])],
        [key |-> "threshold", val |-> [type |-> "u128", value |-> ws.threshold]]>>)

(***************************************************************************)
(* getInitializeArgs                                                        *)
(***************************************************************************)
\* chain.contracts?.axelar_auth_verifier?.address; undefined reads as ""
\* (the caller only tests it for falsiness)
authAddressOf(ch) ==
    IF /\ Has(ch, "contracts")
       /\ Has(ch.contracts, "axelar_auth_verifier")
       /\ Has(ch.contracts["axelar_auth_verifier"], "address")
    THEN ch.contracts["axelar_auth_verifier"].address
    ELSE <<>>

\* a bug: the zero nonce is one byte short
initialSignerSet_ShortNonce(publicKey, opts) ==
    [nonce |-> IF Truthy(opts, "nonce") THEN id(opts.nonce) ELSE [i \in 1..31 |-> 0],
     signers |-> <<[signer |-> publicKey, weight |-> 1]>>,
     threshold |-> 1]

\* the object handed to weightedSignersToScVal
initialSignerSet(publicKey, opts) ==
    [nonce |-> IF Truthy(opts, "nonce") THEN id(opts.nonce) ELSE [i \in 1..32 |-> 0],
     signers |-> <<[signer |-> publicKey, weight |-> 1]>>,
     threshold |-> 1]

\* const owner = nativeToScVal(Address.fromString(wallet.publicKey()), ...)
ownerOf(publicKey) == AddressToScVal(publicKey)

\* a bug: the auth verifier's address is not checked
gatewayArgs_NoAuthCheck(ch, publicKey) ==
    [ok |-> TRUE,
     args |-> <<[key |-> "authAddress", val |-> AddressToScVal(authAddressOf(ch))],
                [key |-> "owner", val |-> ownerOf(publicKey)]>>]

\* case 'axelar_gateway'
gatewayArgs(ch, publicKey) ==
    IF authAddressOf(ch) = <<>>
    THEN [ok |-> FALSE, error |-> "MissingDependency"]
    ELSE [ok |-> TRUE,
          args |-> <<[key |-> "authAddress", val |-> AddressToScVal(authAddressOf(ch))],
                     [key |-> "owner", val |-> ownerOf(publicKey)]>>]

\* case 'axelar_auth_verifier'; ds is what getDomainSeparator resolved to
authVerifierArgs(publicKey, opts, ds) ==
    [ok |-> TRUE,
     args |-> <<[key |-> "owner", val |-> ownerOf(publicKey)],
                [key |-> "previousSignersRetention", val |-> NumberToScVal(15)],
                [key |-> "domainSeparator", val |-> BytesToScVal(ds)],
                [key |-> "minimumRotationDelay", val |-> NumberToScVal(0)],
                [key |-> "initialSigners",
                 val |-> VecToScVal(<<weightedSignersToScVal(
                             initialSignerSet(publicKey, opts))>>)]>>]

\* a bug: the branch returns an empty argument set
operatorsArgs_NoOwner(publicKey) == [ok |-> TRUE, args |-> <<>>]

\* case 'axelar_operators'
operatorsArgs(publicKey) ==
    [ok |-> TRUE, args |-> <<[key |-> "owner", val |-> ownerOf(publicKey)]>>]

\* a bug: an unrecognized name is initialized like axelar_operators
unknownContract_Accepted(publicKey) ==
    [ok |-> TRUE, args |-> <<[key |-> "owner", val |-> ownerOf(publicKey)]>>]

\* default: throw new Error(`Unknown contract: ...`)
unknownContract(publicKey) == [ok |-> FALSE, error |-> "UnknownContract"]

getInitializeArgs(ch, contractName, publicKey, opts, ds) ==
    CASE contractName = "axelar_gateway" -> gatewayArgs(ch, publicKey)
      [] contractName = "axelar_auth_verifier" -> authVerifierArgs(publicKey, opts, ds)
      [] contractName = "axelar_operators" -> operatorsArgs(publicKey)
      [] OTHER -> unknownContract(publicKey)

\* Object.fromEntries(Object.entries(initializeArgs).map(...)) of processCommand
serializeArgs(args) ==
    [i \in 1..Len(args) |->
        [key |-> args[i].key, val |-> serializeValue(scValToNative(args[i].val))]]

\* Object.values(initializeArgs)
objectValues(args) == [i \in 1..Len(args) |-> args[i].val]

postDeployFunctions == [axelar_gateway |-> "postDeployGateway"]

(***************************************************************************)
(* Initial states: the options of one invocation and the stored config.    *)
(***************************************************************************)
OptionSets ==
    {[contractName |-> c] @@ a @@ i @@ n :
        c \in ContractNames,
        a \in {<<>>} \cup {[address |-> s] : s \in Addrs},
        i \in {<<>>, [initialize |-> TRUE]},
        n \in {<<>>} \cup {[nonce |-> s] : s \in Nonces}}

\* records earlier runs can have left in the registry
PriorRecords ==
    {[address |-> a, deployer |-> PriorDeployer] : a \in Addrs}
    \cup
    {[address |-> a, deployer |-> PriorDeployer,
      initializeArgs |-> serializeArgs(<<[key |-> "owner",
                                          val |-> AddressToScVal(PriorDeployer)]>>)] :
        a \in Addrs}

\* stored chain states for a run of contract c: no registry, or a registry
\* holding any of the auth verifier's and c's own earlier records
PriorChains(c) ==
    {<<>>}
    \cup
    {[contracts |-> reg] :
        reg \in UNION {[D -> PriorRecords] :
                         D \in SUBSET {"axelar_auth_verifier", c}}}

Init ==
    /\ options \in OptionSets
    /\ disk \in PriorChains(options.contractName)
    /\ pc = "loadConfig"
    /\ chain = <<>>
    /\ wallet = <<>>
    /\ stdout = <<>>
    /\ contractAddress = <<>>
    /\ initializeArgs = <<>>
    /\ calls = <<>>
    /\ deployCalls = 0
    /\ error = "none"
    /\ saves = 0

(***************************************************************************)
(* mainProcessor and processCommand, one action per step between awaits.   *)
(***************************************************************************)
\* if (!chain.contracts) chain.contracts = {}
ensureRegistry(ch) == IF Has(ch, "contracts") THEN ch ELSE [contracts |-> <<>>]

\* a bug: the new record is merged into the one already there
writeRecord_Merge(ch, name, rec) ==
    [contracts |-> [n \in DOMAIN ch.contracts \cup {name} |->
                      IF n # name THEN ch.contracts[n]
                      ELSE IF name \in DOMAIN ch.contracts THEN rec @@ ch.contracts[name]
                      ELSE rec]]

\* chain.contracts[name] = rec (an assignment replaces the whole record)
writeRecord(ch, name, rec) ==
    [contracts |-> [n \in DOMAIN ch.contracts \cup {name} |->
                      IF n = name THEN rec ELSE ch.contracts[n]]]

\* chain.contracts[name].initializeArgs = serialized
attachArgs(ch, name, serialized) ==
    writeRecord(ch, name,
                [address |-> ch.contracts[name].address,
                 deployer |-> ch.contracts[name].deployer,
                 initializeArgs |-> serialized])

\* where processCommand continues after the record is written
afterRecord(opts) ==
    IF Has(opts, "initialize") THEN "getInitializeArgs" ELSE "saveConfig"

\* mainProcessor: loadConfig, then processCommand up to await getWallet
LoadConfig ==
    /\ pc = "loadConfig"
    /\ chain' = disk
    /\ pc' = "getWallet"
    /\ UNCHANGED <<options, disk, wallet, stdout, contractAddress, initializeArgs,
                   calls, deployCalls, error, saves>>

\* await getWallet resolves
GetWallet ==
    /\ pc = "getWallet"
    /\ \E w \in Wallets : wallet' = w
    /\ pc' = "deploy"
    /\ UNCHANGED <<options, disk, chain, stdout, contractAddress, initializeArgs,
                   calls, deployCalls, error, saves>>

\* await getWallet rejects
GetWalletFailed ==
    /\ pc = "getWallet"
    /\ error' = "WalletFailed"
    /\ pc' = "failed"
    /\ UNCHANGED <<options, disk, chain, wallet, stdout, contractAddress,
                   initializeArgs, calls, deployCalls, saves>>

\* a bug: the deploy binary runs whether or not --address was given
DeployAndRecord_IgnoreAddress ==
    /\ pc = "deploy"
    /\ \E a \in Addrs, ws \in Trails :
          /\ stdout' = a \o ws
          /\ contractAddress' = trimEnd(a \o ws)
          /\ chain' = writeRecord(ensureRegistry(chain), options.contractName,
                                  [address |-> trimEnd(a \o ws), deployer |-> wallet])
    /\ deployCalls' = deployCalls + 1
    /\ pc' = afterRecord(options)
    /\ UNCHANGED <<options, disk, wallet, initializeArgs, calls, error, saves>>

\* no usable --address: run the deploy binary, record its trimmed output
DeployAndRecord ==
    /\ pc = "deploy"
    /\ ~Truthy(options, "address")
    /\ \E a \in Addrs, ws \in Trails :
          /\ stdout' = a \o ws
          /\ contractAddress' = trimEnd(a \o ws)
          /\ chain' = writeRecord(ensureRegistry(chain), options.contractName,
                                  [address |-> trimEnd(a \o ws), deployer |-> wallet])
    /\ deployCalls' = deployCalls + 1
    /\ pc' = afterRecord(options)
    /\ UNCHANGED <<options, disk, wallet, initializeArgs, calls, error, saves>>

\* a bug: a record is written although the deploy binary failed
DeployFailed_RecordsAnyway ==
    /\ pc = "deploy"
    /\ ~Truthy(options, "address")
    /\ chain' = writeRecord(ensureRegistry(chain), options.contractName,
                            [address |-> <<>>, deployer |-> wallet])
    /\ deployCalls' = deployCalls + 1
    /\ error' = "DeploymentFailed"
    /\ pc' = "failed"
    /\ UNCHANGED <<options, disk, wallet, stdout, contractAddress, initializeArgs,
                   calls, saves>>

\* no usable --address and execSync throws
DeployFailed ==
    /\ pc = "deploy"
    /\ ~Truthy(options, "address")
    /\ chain' = ensureRegistry(chain)
    /\ deployCalls' = deployCalls + 1
    /\ error' = "DeploymentFailed"
    /\ pc' = "failed"
    /\ UNCHANGED <<options, disk, wallet, stdout, contractAddress, initializeArgs,
                   calls, saves>>

\* --address given: adopt it, no deploy
AdoptAndRecord ==
    /\ pc = "deploy"
    /\ Truthy(options, "address")
    /\ contractAddress' = options.address
    /\ chain' = writeRecord(ensureRegistry(chain), options.contractName,
                            [address |-> options.address, deployer |-> wallet])
    /\ pc' = afterRecord(options)
    /\ UNCHANGED <<options, disk, wallet, stdout, initializeArgs, calls,
                   deployCalls, error, saves>>

\* getInitializeArgs returns: serialize and attach the arguments
BuildArgs ==
    /\ pc = "getInitializeArgs"
    /\ \E ds \in DomainSeparators :
          LET r == getInitializeArgs(chain, options.contractName, wallet, options, ds) IN
          /\ r.ok
          /\ initializeArgs' = r.args
          /\ chain' = attachArgs(chain, options.contractName, serializeArgs(r.args))
    /\ pc' = "initialize"
    /\ UNCHANGED <<options, disk, wallet, stdout, contractAddress, calls,
                   deployCalls, error, saves>>

\* getInitializeArgs throws
BuildArgsFailed ==
    /\ pc = "getInitializeArgs"
    /\ \E ds \in DomainSeparators :
          LET r == getInitializeArgs(chain, options.contractName, wallet, options, ds) IN
          /\ ~r.ok
          /\ error' = r.error
    /\ pc' = "failed"
    /\ UNCHANGED <<options, disk, chain, wallet, stdout, contractAddress,
                   initializeArgs, calls, deployCalls, saves>>

\* await getDomainSeparator rejects inside getInitializeArgs
DomainSeparatorFailed ==
    /\ pc = "getInitializeArgs"
    /\ options.contractName = "axelar_auth_verifier"
    /\ error' = "DomainSeparatorFailed"
    /\ pc' = "failed"
    /\ UNCHANGED <<options, disk, chain, wallet, stdout, contractAddress,
                   initializeArgs, calls, deployCalls, saves>>

\* contract.call('initialize', ...Object.values(initializeArgs))
initializeOperation ==
    [method |-> "initialize", contract |-> contractAddress,
     args |-> objectValues(initializeArgs)]

\* where processCommand continues after initialize was broadcast
afterInitialize(name) ==
    IF name \in DOMAIN postDeployFunctions THEN "postDeploy" ELSE "saveConfig"

\* broadcast of initialize succeeds
InitializeOk ==
    /\ pc = "initialize"
    /\ calls' = Append(calls, initializeOperation @@ [ok |-> TRUE])
    /\ pc' = afterInitialize(options.contractName)
    /\ UNCHANGED <<options, disk, chain, wallet, stdout, contractAddress,
                   initializeArgs, deployCalls, error, saves>>

\* a bug: the config is saved although initialize was rejected
InitializeFailed_StillSaves ==
    /\ pc = "initialize"
    /\ calls' = Append(calls, initializeOperation @@ [ok |-> FALSE])
    /\ error' = "RemoteCallFailed"
    /\ pc' = "saveConfig"
    /\ UNCHANGED <<options, disk, chain, wallet, stdout, contractAddress,
                   initializeArgs, deployCalls, saves>>

\* broadcast of initialize rejects
InitializeFailed ==
    /\ pc = "initialize"
    /\ calls' = Append(calls, initializeOperation @@ [ok |-> FALSE])
    /\ error' = "RemoteCallFailed"
    /\ pc' = "failed"
    /\ UNCHANGED <<options, disk, chain, wallet, stdout, contractAddress,
                   initializeArgs, deployCalls, saves>>

\* a bug: the two addresses are swapped
transferOwnershipOperation_Swapped ==
    [method |-> "transfer_ownership",
     contract |-> chain.contracts["axelar_gateway"].address,
     args |-> <<AddressToScVal(chain.contracts["axelar_auth_verifier"].address)>>]

\* postDeployGateway's operation
transferOwnershipOperation ==
    [method |-> "transfer_ownership",
     contract |-> chain.contracts["axelar_auth_verifier"].address,
     args |-> <<AddressToScVal(chain.contracts["axelar_gateway"].address)>>]

\* the post-deploy hook's broadcast succeeds
PostDeployOk ==
    /\ pc = "postDeploy"
    /\ calls' = Append(calls, transferOwnershipOperation @@ [ok |-> TRUE])
    /\ pc' = "saveConfig"
    /\ UNCHANGED <<options, disk, chain, wallet, stdout, contractAddress,
                   initializeArgs, deployCalls, error, saves>>

\* the post-deploy hook's broadcast rejects
PostDeployFailed ==
    /\ pc = "postDeploy"
    /\ calls' = Append(calls, transferOwnershipOperation @@ [ok |-> FALSE])
    /\ error' = "RemoteCallFailed"
    /\ pc' = "failed"
    /\ UNCHANGED <<options, disk, chain, wallet, stdout, contractAddress,
                   initializeArgs, deployCalls, saves>>

\* processCommand returned: mainProcessor saves the config
SaveConfig ==
    /\ pc = "saveConfig"
    /\ disk' = chain
    /\ saves' = saves + 1
    /\ pc' = "done"
    /\ UNCHANGED <<options, chain, wallet, stdout, contractAddress, initializeArgs,
                   calls, deployCalls, error>>

Next ==
    \/ LoadConfig
    \/ GetWallet
    \/ GetWalletFailed
    \/ DeployAndRecord
    \/ DeployFailed
    \/ AdoptAndRecord
    \/ BuildArgs
    \/ BuildArgsFailed
    \/ DomainSeparatorFailed
    \/ InitializeOk
    \/ InitializeFailed
    \/ PostDeployOk
    \/ PostDeployFailed
    \/ SaveConfig

Spec == Init /\ [][Next]_vars

TypeOK ==
    /\ pc \in {"loadConfig", "getWallet", "deploy", "getInitializeArgs", "initialize",
               "postDeploy", "saveConfig", "done", "failed"}
    /\ error \in {"none", "WalletFailed", "DeploymentFailed", "MissingDependency",
                  "UnknownContract", "DomainSeparatorFailed", "RemoteCallFailed"}
    /\ deployCalls \in 0..1
    /\ saves \in 0..1

(***************************************************************************)
(* Shorthands for the properties.                                           *)
(***************************************************************************)
Name == options.contractName

\* the run got past the deploy/adopt step: the record of this run is written
Recorded ==
    /\ pc \notin {"loadConfig", "getWallet", "deploy"}
    /\ error \notin {"WalletFailed", "DeploymentFailed"}

\* the Contract Record of this run's contract in the in-memory registry
Record == chain.contracts[Name]

\* the registry as stored in the config file
StoredRegistry == IF Has(disk, "contracts") THEN disk.contracts ELSE <<>>

\* s is t with trailing whitespace removed
IsTrimmed(s, t) ==
    /\ Len(s) <= Len(t)
    /\ SubSeq(t, 1, Len(s)) = s
    /\ \A i \in (Len(s) + 1)..Len(t) : t[i] \in Whitespace
    /\ (s = <<>> \/ s[Len(s)] \notin Whitespace)

\* the run of C1: axelar_operators, --initialize, no --address, all succeeded
OperatorsRunDone ==
    /\ pc = "done"
    /\ error = "none"
    /\ Name = "axelar_operators"
    /\ Has(options, "initialize")
    /\ ~Has(options, "address")

OwnerOnly == <<[key |-> "owner", val |-> [t |-> "string", v |-> wallet]]>>

\* C1 (as amended): after a successful run for axelar_operators with
\* --initialize and no --address, the record has exactly address, deployer and
\* initializeArgs; address is the captured stdout with its trailing whitespace
\* removed, deployer is the wallet's public key, initializeArgs is exactly
\* { owner: wallet address }; and that registry is what was saved.
C1_OperatorsRecordTrimmed ==
    OperatorsRunDone =>
        /\ DOMAIN Record = {"address", "deployer", "initializeArgs"}
        /\ IsTrimmed(Record.address, stdout)
        /\ Record.deployer = wallet
        /\ Record.initializeArgs = OwnerOnly
        /\ disk = chain

\* C1 as stated: the recorded address equals the captured stdout.
C1_Original ==
    OperatorsRunDone =>
        /\ Record.address = stdout
        /\ Record.deployer = wallet
        /\ Record.initializeArgs = OwnerOnly

C1_Witness == OperatorsRunDone /\ stdout = <<"C", "\n">> /\ Record.address = <<"C">>

\* C2 (as amended): when a non-empty --address is supplied the deploy binary is
\* never invoked, and the record written for contractName has that address.
C2_AdoptSkipsDeploy ==
    Truthy(options, "address") =>
        /\ deployCalls = 0
        /\ stdout = <<>>
        /\ Recorded => (Record.address = options.address /\ contractAddress = options.address)

\* C2 as stated: whenever an --address option is supplied (the empty string
\* included) the deploy binary is never invoked and the supplied address is recorded.
C2_Original ==
    Has(options, "address") =>
        /\ deployCalls = 0
        /\ Recorded => Record.address = options.address

C2_Witness ==
    /\ Truthy(options, "address")
    /\ pc = "done"
    /\ Has(options, "initialize")
    /\ Record.address = options.address

\* the initialize broadcast of this run was rejected
InitializeRejected ==
    /\ error = "RemoteCallFailed"
    /\ Len(calls) = 1
    /\ calls[1].method = "initialize"

\* C3 (as amended): when the initialize call fails, the in-memory registry
\* holds the record with address, deployer and the serialized initializeArgs,
\* but the run stops there: saveConfig is never called and the stored config
\* is not written.
C3_FailedInitializeNotSaved ==
    InitializeRejected =>
        /\ pc = "failed"
        /\ DOMAIN Record = {"address", "deployer", "initializeArgs"}
        /\ Record.address = contractAddress
        /\ Record.deployer = wallet
        /\ Record.initializeArgs = serializeArgs(initializeArgs)
        /\ saves = 0

\* C3 as stated: when the initialize call fails, the stored config contains the
\* record with its address, deployer and initializeArgs.
C3_Original ==
    InitializeRejected =>
        /\ Has(disk, "contracts")
        /\ Name \in DOMAIN disk.contracts
        /\ disk.contracts[Name] = Record

C3_Witness == InitializeRejected /\ pc = "failed" /\ Has(Record, "initializeArgs")

\* the registry holds no auth-verifier record with a non-empty address
NoAuthVerifier ==
    ~ /\ Has(chain, "contracts")
      /\ "axelar_auth_verifier" \in DOMAIN chain.contracts
      /\ chain.contracts["axelar_auth_verifier"].address # <<>>

\* C4: building the gateway's arguments when the registry holds no auth-verifier
\* record with a non-empty address fails with MissingDependency and leaves the
\* registry as it was.
C4_MissingDependency ==
    [][(pc = "getInitializeArgs" /\ Name = "axelar_gateway" /\ NoAuthVerifier)
          => (error' = "MissingDependency" /\ pc' = "failed" /\ chain' = chain
              /\ initializeArgs' = <<>>)]_vars

C4_Witness ==
    /\ error = "MissingDependency"
    /\ Name = "axelar_gateway"
    /\ NoAuthVerifier
    /\ DOMAIN Record = {"address", "deployer"}

\* the identifiers the builder can build arguments for
SupportedContracts ==
    {c \in ContractNames :
        \E ch \in PriorChains(c), w \in Wallets, ds \in DomainSeparators :
            getInitializeArgs(ch, c, w, [contractName |-> c], ds).ok}

\* the builder of this run returned an argument set
Built == pc \in {"initialize", "postDeploy"} \/ calls # <<>>

HasOwner ==
    \E i \in 1..Len(initializeArgs) :
        /\ initializeArgs[i].key = "owner"
        /\ initializeArgs[i].val = [type |-> "address", value |-> wallet]

\* C5 (as amended): the builder supports three identifiers (axelar_gateway,
\* axelar_auth_verifier, axelar_operators), and every successful build returns an
\* argument set with an owner entry equal to the wallet's address.
C5_ThreeSupportedWithOwner ==
    /\ SupportedContracts = {"axelar_gateway", "axelar_auth_verifier", "axelar_operators"}
    /\ Built => (Name \in SupportedContracts /\ HasOwner)
    /\ ~Built => initializeArgs = <<>>

\* C5 as stated: four identifiers are supported, each with an owner entry.
C5_Original ==
    /\ Cardinality(SupportedContracts) = 4
    /\ Built => HasOwner

C5_Witness == Built /\ Name = "axelar_operators" /\ HasOwner

\* the signer set inside the built initialSigners argument
BuiltSigners == initializeArgs[5].val.value
SignerSetEntries == BuiltSigners[1].value

\* C6: for axelar_auth_verifier the built signer set has exactly one signer, the
\* wallet, with weight 1, threshold 1 and a 32-byte nonce, which is all zero
\* when no nonce option is supplied.
C6_BootstrapSignerSet ==
    (Built /\ Name = "axelar_auth_verifier") =>
        /\ Len(initializeArgs) = 5
        /\ initializeArgs[5].key = "initialSigners"
        /\ Len(BuiltSigners) = 1
        /\ [i \in 1..3 |-> SignerSetEntries[i].key] = <<"nonce", "signers", "threshold">>
        /\ Len(SignerSetEntries[1].val.value) = 32
        /\ \A i \in 1..32 : SignerSetEntries[1].val.value[i] \in 0..255
        /\ (~Has(options, "nonce")
               => \A i \in 1..32 : SignerSetEntries[1].val.value[i] = 0)
        /\ Len(SignerSetEntries[2].val.value) = 1
        /\ SignerSetEntries[2].val.value[1].value[1].key = "signer"
        /\ SignerSetEntries[2].val.value[1].value[1].val.value = wallet
        /\ SignerSetEntries[2].val.value[1].value[2].key = "weight"
        /\ SignerSetEntries[2].val.value[1].value[2].val.value = 1
        /\ SignerSetEntries[3].val.value = 1

C6_Witness ==
    /\ Built
    /\ Name = "axelar_auth_verifier"
    /\ ~Has(options, "nonce")
    /\ SignerSetEntries[1].val.value = [i \in 1..32 |-> 0]

\* C7: a run without --initialize that got past the deploy/adopt step does no
\* argument build, no remote call and no hook, does not fail, and its record is
\* exactly {address, deployer}, whatever the registry held before.
C7_NoInitializeStopsAfterRecord ==
    (~Has(options, "initialize") /\ Recorded) =>
        /\ pc \in {"saveConfig", "done"}
        /\ error = "none"
        /\ initializeArgs = <<>>
        /\ calls = <<>>
        /\ DOMAIN Record = {"address", "deployer"}
        /\ Record.address = contractAddress
        /\ Record.deployer = wallet
        /\ (pc = "done" => disk = chain)

C7_Witness ==
    /\ ~Has(options, "initialize")
    /\ pc = "saveConfig"
    /\ Has(disk, "contracts")
    /\ Name \in DOMAIN disk.contracts
    /\ Has(disk.contracts[Name], "initializeArgs")
    /\ DOMAIN Record = {"address", "deployer"}

\* C8: transfer_ownership is broadcast only for axelar_gateway with
\* --initialize, after the initialize broadcast of the run succeeded, on the
\* registry's auth-verifier address with the gateway address this run recorded;
\* for every other identifier no hook runs and the run goes on to save.
C8_HookOnlyForGateway ==
    /\ \A i \in 1..Len(calls) :
          calls[i].method = "transfer_ownership" =>
              /\ Name = "axelar_gateway"
              /\ Has(options, "initialize")
              /\ i = 2
              /\ calls[1].method = "initialize"
              /\ calls[1].ok
              /\ calls[i].contract = chain.contracts["axelar_auth_verifier"].address
              /\ calls[i].args = <<[type |-> "address", value |-> contractAddress]>>
              /\ chain.contracts["axelar_gateway"].address = contractAddress
    /\ pc = "postDeploy" =>
          (Name = "axelar_gateway" /\ Len(calls) = 1 /\ calls[1].ok)
    /\ (Name # "axelar_gateway" /\ calls # <<>>) =>
          /\ Len(calls) = 1
          /\ calls[1].method = "initialize"
          /\ (calls[1].ok => (error = "none" /\ pc \in {"saveConfig", "done"}))

C8_Witness ==
    /\ pc = "done"
    /\ Len(calls) = 2
    /\ calls[2].method = "transfer_ownership"
    /\ calls[2].ok

\* C9: an unrecognized name fails only at argument-build time: with
\* --initialize the deploy (or adoption) and the {address, deployer} record
\* precede the UnknownContract error, which aborts the run with no
\* initializeArgs attached and no remote call; without --initialize the run
\* does not fail on the name.
C9_UnknownFailsAtBuild ==
    Name = "unknown_contract" =>
        /\ error \in {"none", "WalletFailed", "DeploymentFailed", "UnknownContract"}
        /\ (error = "UnknownContract") = (pc = "failed" /\ Recorded)
        /\ error = "UnknownContract" => Has(options, "initialize")
        /\ Recorded =>
              /\ DOMAIN Record = {"address", "deployer"}
              /\ Record.address = contractAddress
              /\ Truthy(options, "address") \/ deployCalls = 1
              /\ initializeArgs = <<>>
              /\ calls = <<>>
              /\ Has(options, "initialize") => (pc \in {"getInitializeArgs", "failed"} /\ saves = 0)
              /\ ~Has(options, "initialize") => (pc \in {"saveConfig", "done"})

C9_Witness ==
    /\ Name = "unknown_contract"
    /\ error = "UnknownContract"
    /\ deployCalls = 1
    /\ DOMAIN Record = {"address", "deployer"}

\* C10: when the deploy binary fails the run aborts there: the registry's
\* records are those of the stored config (none written or replaced), no
\* arguments are built, no remote call is made and the config is not saved.
C10_DeployFailureAborts ==
    error = "DeploymentFailed" =>
        /\ pc = "failed"
        /\ ~Truthy(options, "address")
        /\ deployCalls = 1
        /\ chain.contracts = StoredRegistry
        /\ initializeArgs = <<>>
        /\ calls = <<>>
        /\ saves = 0

C10_Witness ==
    /\ error = "DeploymentFailed"
    /\ ~Has(options, "address")
    /\ Has(disk, "contracts")
    /\ Name \in DOMAIN disk.contracts
    /\ chain.contracts[Name] = disk.contracts[Name]

====
